---- MODULE Spec2Model ----
(***************************************************************************)
(* Byte-range negotiation and chunked streaming of django-ranged-          *)
(* fileresponse: RangedLocalFileResponse / RangedFileReader (local.py) and *)
(* RangedGoogleBlobResponse / RangedGoogleStorageFileReader (google.py,    *)
(* google_storage_file.py).                                                *)
(*                                                                         *)
(* Strings are sequences of one-character strings, so that split, strip,  *)
(* lower, int() and '%d' formatting are computed rather than assumed.      *)
(* A resource of `size` bytes holds the byte value i at offset i, so a     *)
(* block is the sequence of the offsets it carries.                        *)
(***************************************************************************)
EXTENDS Integers, Sequences, FiniteSets, TLC

\* ------------------------------------------------------------------------
\* Bounds of the model
\* ------------------------------------------------------------------------
MaxSize == 4
MaxNum == 5
BigNum == 12
MaxBlock == 3
MaxCap == 2

\* float('inf') of local.py: larger than every offset the model can reach
Inf == 1000000

\* ------------------------------------------------------------------------
\* Python string primitives used by the parsers
\* ------------------------------------------------------------------------
Digits == <<"0", "1", "2", "3", "4", "5", "6", "7", "8", "9">>

IsDigit(c) == \E i \in 1..10 : Digits[i] = c

DigitVal(c) == (CHOOSE i \in 1..10 : Digits[i] = c) - 1

Min(a, b) == IF a <= b THEN a ELSE b

Contains(s, c) == \E i \in 1..Len(s) : s[i] = c

IndexOf(s, c) == CHOOSE i \in 1..Len(s) : s[i] = c /\ \A j \in 1..(i - 1) : s[j] # c

\* s.split(c, 1) when c occurs in s: the text before and after the first c
SplitOnce(s, c) == <<SubSeq(s, 1, IndexOf(s, c) - 1), SubSeq(s, IndexOf(s, c) + 1, Len(s))>>

RECURSIVE SplitAll(_, _)
\* s.split(c): every segment between occurrences of c
SplitAll(s, c) ==
    IF Contains(s, c)
    THEN <<SplitOnce(s, c)[1]>> \o SplitAll(SplitOnce(s, c)[2], c)
    ELSE <<s>>

RECURSIVE LStrip(_)
LStrip(s) == IF Len(s) > 0 /\ s[1] = " " THEN LStrip(Tail(s)) ELSE s

RECURSIVE RStrip(_)
RStrip(s) == IF Len(s) > 0 /\ s[Len(s)] = " " THEN RStrip(SubSeq(s, 1, Len(s) - 1)) ELSE s

\* s.strip()
Strip(s) == RStrip(LStrip(s))

LowerChar(c) ==
    CASE c = "B" -> "b"
      [] c = "Y" -> "y"
      [] c = "T" -> "t"
      [] c = "E" -> "e"
      [] c = "S" -> "s"
      [] OTHER -> c

\* s.lower()
Lower(s) == [i \in 1..Len(s) |-> LowerChar(s[i])]

AllDigits(s) == Len(s) > 0 /\ \A i \in 1..Len(s) : IsDigit(s[i])

\* s.isnumeric()
IsNumeric(s) == AllDigits(s)

RECURSIVE DigitsVal(_)
DigitsVal(s) == IF Len(s) = 0 THEN 0 ELSE 10 * DigitsVal(SubSeq(s, 1, Len(s) - 1)) + DigitVal(s[Len(s)])

\* int(s) succeeds: optional blanks around, optional sign, at least one digit
IntOk(s) ==
    LET t == Strip(s)
    IN  /\ Len(t) > 0
        /\ IF t[1] \in {"-", "+"} THEN AllDigits(Tail(t)) ELSE AllDigits(t)

\* int(s) when it succeeds
IntVal(s) ==
    LET t == Strip(s)
    IN  IF t[1] = "-" THEN 0 - DigitsVal(Tail(t))
        ELSE IF t[1] = "+" THEN DigitsVal(Tail(t))
        ELSE DigitsVal(t)

RECURSIVE NatStr(_)
NatStr(n) == IF n < 10 THEN <<Digits[n + 1]>> ELSE NatStr(n \div 10) \o <<Digits[(n % 10) + 1]>>

\* '%d' % n
IntStr(n) == IF n < 0 THEN <<"-">> \o NatStr(0 - n) ELSE NatStr(n)

BytesUnit == <<"b", "y", "t", "e", "s">>

\* ------------------------------------------------------------------------
\* RangedFileReader.parse_range_header (local.py)
\* ------------------------------------------------------------------------
ParseNone == [tag |-> "None", ranges |-> <<>>]

ParseValueError == [tag |-> "ValueError", ranges |-> <<>>]

\* StopOf that keeps the inclusive last-byte-pos
StopOf_Inclusive(stopS, resource_size) == IF Len(stopS) > 0 THEN IntVal(stopS) ELSE resource_size

\* `int(stop) + 1 if stop else resource_size`: the exclusive stop of 'N-M' or 'N-'
StopOf(stopS, resource_size) == IF Len(stopS) > 0 THEN IntVal(stopS) + 1 ELSE resource_size

\* one pass of the body of `for val in range_.split(',')`
ParseSpec(raw, resource_size) ==
    LET val == Strip(raw)
    IN  IF ~Contains(val, "-") THEN [tag |-> "None", range |-> <<0, 0>>]
        ELSE IF val[1] = "-"
        THEN IF ~IntOk(val) THEN [tag |-> "ValueError", range |-> <<0, 0>>]
             ELSE LET s0 == resource_size + IntVal(val)
                  IN  [tag |-> "ok", range |-> <<IF s0 < 0 THEN 0 ELSE s0, resource_size>>]
        ELSE LET startS == SplitOnce(val, "-")[1]
                 stopS == SplitOnce(val, "-")[2]
             IN  IF ~IntOk(startS) THEN [tag |-> "ValueError", range |-> <<0, 0>>]
                 ELSE IF Len(stopS) > 0 /\ ~IntOk(stopS) THEN [tag |-> "ValueError", range |-> <<0, 0>>]
                 ELSE LET start == IntVal(startS)
                          stop == StopOf(stopS, resource_size)
                      IN  IF start >= stop THEN [tag |-> "None", range |-> <<0, 0>>]
                          ELSE [tag |-> "ok", range |-> <<start, stop>>]

RECURSIVE ParseSpecs(_, _, _)
ParseSpecs(vals, resource_size, acc) ==
    IF Len(vals) = 0 THEN [tag |-> "ranges", ranges |-> acc]
    ELSE LET r == ParseSpec(Head(vals), resource_size)
         IN  IF r.tag = "None" THEN ParseNone
             ELSE IF r.tag = "ValueError" THEN ParseValueError
             ELSE ParseSpecs(Tail(vals), resource_size, Append(acc, r.range))

parse_range_header(header, resource_size) ==
    IF Len(header) = 0 \/ ~Contains(header, "=") THEN ParseNone
    ELSE LET units == Lower(Strip(SplitOnce(header, "=")[1]))
             range_ == SplitOnce(header, "=")[2]
         IN  IF units # BytesUnit THEN ParseNone
             ELSE ParseSpecs(SplitAll(range_, ","), resource_size, <<>>)

\* ------------------------------------------------------------------------
\* RangedGoogleBlobResponse.get_base_ranges (google.py)
\* ------------------------------------------------------------------------
BaseBadRequest == [tag |-> "BadRequest", start |-> 0, stop |-> 0]

BaseNone == [tag |-> "None", start |-> 0, stop |-> 0]

\* FirstSpec that takes the last spec of the header
FirstSpec_Last(range_) == Strip(SplitAll(range_, ",")[Len(SplitAll(range_, ","))])

\* range_.split(',')[0].strip()
FirstSpec(range_) == Strip(SplitAll(range_, ",")[1])

get_base_ranges(header) ==
    IF Len(header) = 0 \/ ~Contains(header, "=") THEN BaseNone
    ELSE LET units == Lower(Strip(SplitOnce(header, "=")[1]))
             range_ == SplitOnce(header, "=")[2]
             val == FirstSpec(range_)
         IN  IF units # BytesUnit THEN BaseBadRequest
             ELSE IF ~Contains(val, "-") THEN BaseBadRequest
             ELSE LET startS == SplitOnce(val, "-")[1]
                      stopS == SplitOnce(val, "-")[2]
                  IN  IF Len(startS) > 0 /\ ~IsNumeric(startS) THEN BaseBadRequest
                      ELSE IF Len(stopS) > 0 /\ ~IsNumeric(stopS) THEN BaseBadRequest
                      ELSE LET stop == IF Len(stopS) = 0 THEN 0 ELSE IntVal(stopS)
                           IN  IF Len(startS) = 0 /\ stop > 0
                               THEN [tag |-> "ok", start |-> 0 - stop, stop |-> 0]
                               ELSE [tag |-> "ok",
                                     start |-> IF Len(startS) = 0 THEN 0 ELSE IntVal(startS),
                                     stop |-> stop]

\* ------------------------------------------------------------------------
\* Requests: what the client asks for, and the Range header that says it
\* ------------------------------------------------------------------------
Nums == (0..MaxNum) \cup {BigNum}

Prefix == BytesUnit \o <<"=">>

\* " Bytes =": the unit with blanks and capitals
PrefixLoose == <<" ", "B", "y", "t", "e", "S", " ", "=">>

RangeText(n, m) == IntStr(n) \o <<"-">> \o IntStr(m)

OpenText(n) == IntStr(n) \o <<"-">>

SuffixText(k) == <<"-">> \o IntStr(k)

\* the text of one byte-range-spec
SpecText(kind, n, m) ==
    CASE kind = "range" -> RangeText(n, m)
      [] kind = "open" -> OpenText(n)
      [] kind = "suffix" -> SuffixText(n)

\* second specs of a multi-range header, well-formed and not
RestTexts == {<<"0", "-", "1">>, <<" ", "-", "2">>, <<"x">>}

\* headers that are not a byte-range-set
MalformedHeaders ==
    [unit |-> <<"i", "t", "e", "m", "s", "=", "0", "-", "1">>,
     nodash |-> Prefix \o <<"5">>,
     badstart |-> Prefix \o <<"a", "-", "3">>,
     badstop |-> Prefix \o <<"1", "-", "x">>,
     empty |-> <<>>,
     noequals |-> <<"b", "y", "t", "e", "s">>,
     dashes |-> Prefix \o <<"-", "-", "2">>]

MalformedKinds == {"unit", "nodash", "badstart", "badstop", "empty", "noequals", "dashes"}

SingleSpecs ==
    [kind : {"range"}, n : Nums, m : Nums, loose : BOOLEAN, rest : {<<>>}, multi : {FALSE}]
    \cup [kind : {"open", "suffix"}, n : Nums, m : {0}, loose : {FALSE}, rest : {<<>>}, multi : {FALSE}]

MultiSpecs ==
    [kind : {"range"}, n : 0..MaxNum, m : 0..MaxNum, loose : {FALSE}, rest : RestTexts, multi : {TRUE}]
    \cup [kind : {"open", "suffix"}, n : 0..MaxNum, m : {0}, loose : {FALSE}, rest : RestTexts, multi : {TRUE}]

Requests ==
    [kind : {"none"}, n : {0}, m : {0}, loose : {FALSE}, rest : {<<>>}, multi : {FALSE}]
    \cup [kind : MalformedKinds, n : {0}, m : {0}, loose : {FALSE}, rest : {<<>>}, multi : {FALSE}]
    \cup SingleSpecs
    \cup MultiSpecs

\* 'HTTP_RANGE' in request.META
HasRange(req) == req.kind # "none"

\* request.META['HTTP_RANGE']
HeaderOf(req) ==
    IF req.kind = "none" THEN <<>>
    ELSE IF req.kind \in MalformedKinds THEN MalformedHeaders[req.kind]
    ELSE (IF req.loose THEN PrefixLoose ELSE Prefix)
         \o SpecText(req.kind, req.n, req.m)
         \o (IF req.multi THEN <<",">> \o req.rest ELSE <<>>)


\* every Range header a request of the model can carry
Headers == {HeaderOf(req) : req \in Requests}

\* parse_range_header over the headers and sizes of the model, computed once
ParsedLocal == [h \in Headers |-> [sz \in 0..MaxSize |-> parse_range_header(h, sz)]]

\* get_base_ranges over the headers of the model, computed once
ParsedRemote == [h \in Headers |-> get_base_ranges(h)]

\* ------------------------------------------------------------------------
\* State
\* ------------------------------------------------------------------------
VARIABLES
    size,              \* length of the resource, in bytes
    pc,                \* "idle", "ready", "streaming", "done", "raised", "failed"
    error,             \* the exception that ended construction or streaming
    variant,           \* "local", "remote" or "reader" (a bare RangedFileReader)
    request,           \* the request being answered
    block_size,
    max_content_size,
    status_code,
    headers,           \* the response headers the range logic sets
    last_start,
    last_stop,
    ranged_file,       \* the reader: RangedFileReader / RangedGoogleStorageFileReader
    download,          \* the ChunkedDownload session of the remote reader
    log,               \* events sent and blocks produced, in order
    fetches            \* network fetches made so far

vars == <<size, pc, error, variant, request, block_size, max_content_size, status_code,
          headers, last_start, last_stop, ranged_file, download, log, fetches>>

NoRequest == [kind |-> "none", n |-> 0, m |-> 0, loose |-> FALSE, rest |-> <<>>, multi |-> FALSE]

NoHeaders ==
    [accept_ranges |-> FALSE,
     has_content_range |-> FALSE, content_range |-> <<>>,
     has_content_length |-> FALSE, content_length |-> 0]

NoReader ==
    [start |-> 0, stop |-> 0, size |-> 0, position |-> 0, fpos |-> 0,
     notify |-> FALSE, iter_counter |-> 0, initial_chunk |-> <<>>]

NoDownload ==
    [start |-> 0, chunk_size |-> 0, has_end |-> FALSE, end |-> 0,
     bytes_downloaded |-> 0, has_total |-> FALSE, total_bytes |-> 0, finished |-> FALSE]

\* the bytes of the resource at offsets [a, b)
Bytes(a, b) == [i \in 1..(b - a) |-> a + i - 1]

\* one ChunkEvent as send_signal receives it
Event(start, stop, reloaded, finished, has_range, http_range) ==
    [kind |-> "event", start |-> start, stop |-> stop, reloaded |-> reloaded,
     finished |-> finished, has_range |-> has_range, http_range |-> http_range,
     data |-> <<>>]

\* one block handed to the response layer
Block(data) ==
    [kind |-> "block", start |-> 0, stop |-> 0, reloaded |-> FALSE,
     finished |-> FALSE, has_range |-> FALSE, http_range |-> <<>>,
     data |-> data]

\* RangedResponse.send_signal: hand the event to the notifier
send_signal(events, ev) == Append(events, ev)

Init ==
    /\ size \in 0..MaxSize
    /\ pc = "idle"
    /\ error = ""
    /\ variant = "none"
    /\ request = NoRequest
    /\ block_size = 1
    /\ max_content_size = 0
    /\ status_code = 200
    /\ headers = NoHeaders
    /\ last_start = -1
    /\ last_stop = -1
    /\ ranged_file = NoReader
    /\ download = NoDownload
    /\ log = <<>>
    /\ fetches = 0

\* inputs of the constructors
BlockSizes == 1..MaxBlock

Caps == 0..MaxCap

\* windows a RangedFileReader is opened on directly; -1 is the default stop
ReaderStops == (-1..(MaxSize + 1)) \cup {Inf}

\* ------------------------------------------------------------------------
\* Local variant (local.py)
\* ------------------------------------------------------------------------
\* RangedFileReader.__init__
LocalReaderInit(start, stop, bs, notify) ==
    [start |-> start,
     stop |-> IF stop = -1 THEN Min(start + stop, size) ELSE stop,
     size |-> size, position |-> 0, fpos |-> 0,
     notify |-> notify, iter_counter |-> 0, initial_chunk |-> <<>>]

\* 'bytes %d-%d/%d' % (start, stop - 1, size)
ContentRange(start, stop, sz) ==
    <<"b", "y", "t", "e", "s", " ">> \o IntStr(start) \o <<"-">> \o IntStr(stop - 1)
        \o <<"/">> \o IntStr(sz)

\* ClampStop without the clamp
ClampStop_Unclamped(stop, sz) == stop

\* the clamp of add_range_headers: `if stop >= size: stop = size`
ClampStop(stop, sz) == IF stop >= sz THEN sz ELSE stop

\* RangedLocalFileResponse.add_range_headers, on a response in state r
LocalAddRangeHeaders(range_header, r) ==
    LET sz == r.ranged_file.size
        parsed == ParsedLocal[range_header][sz]
        ranges == IF parsed.tag = "ranges" THEN parsed.ranges ELSE <<>>
        r1 == [r EXCEPT !.headers.accept_ranges = TRUE]
    IN  IF parsed.tag = "ranges" /\ Len(ranges) = 1
        THEN LET start == ranges[1][1]
                 stop == ranges[1][2]
             IN  IF start >= sz
                 THEN [r1 EXCEPT !.last_start = start, !.last_stop = stop, !.status_code = 416]
                 ELSE [r1 EXCEPT !.last_start = start,
                                 !.last_stop = ClampStop(stop, sz),
                                 !.ranged_file.start = start,
                                 !.ranged_file.stop = ClampStop(stop, sz),
                                 !.headers.has_content_range = TRUE,
                                 !.headers.content_range = ContentRange(start, ClampStop(stop, sz), sz),
                                 !.headers.has_content_length = TRUE,
                                 !.headers.content_length = ClampStop(stop, sz) - start,
                                 !.status_code = 206]
        ELSE r1

\* RangedLocalFileResponse.__init__, up to the event: the response it builds
LocalResponse(req, bs, cap) ==
    LET r0 == [status_code |-> 200, headers |-> NoHeaders, last_start |-> -1, last_stop |-> -1,
               ranged_file |-> LocalReaderInit(0, IF cap = 0 THEN Inf ELSE cap, bs, FALSE)]
    IN  IF HasRange(req) THEN LocalAddRangeHeaders(HeaderOf(req), r0) ELSE r0

\* RangedLocalFileResponse.__init__
LocalConstruct ==
    /\ pc = "idle"
    /\ \E req \in Requests, bs \in BlockSizes, cap \in Caps :
         \E r \in {LocalResponse(req, bs, cap)} :
           /\ status_code' = r.status_code
           /\ headers' = r.headers
           /\ last_start' = r.last_start
           /\ last_stop' = r.last_stop
           /\ ranged_file' = r.ranged_file
           /\ log' = send_signal(log, Event(r.last_start, r.last_stop, TRUE, FALSE,
                                            HasRange(req), HeaderOf(req)))
           /\ request' = req
           /\ block_size' = bs
           /\ max_content_size' = cap
    /\ variant' = "local"
    /\ pc' = "ready"
    /\ UNCHANGED <<size, error, download, fetches>>

\* a RangedFileReader opened directly on a window, with or without a notifier
OpenReader ==
    /\ pc = "idle"
    /\ \E start \in 0..MaxSize, stop \in ReaderStops, bs \in BlockSizes, notify \in BOOLEAN :
           /\ ranged_file' = LocalReaderInit(start, stop, bs, notify)
           /\ block_size' = bs
    /\ variant' = "reader"
    /\ pc' = "ready"
    /\ UNCHANGED <<size, error, request, max_content_size, status_code, headers,
                   last_start, last_stop, download, log, fetches>>

\* self.f.read(n) with the file cursor at fpos
FileRead(fpos, n) == IF fpos >= size THEN <<>> ELSE Bytes(fpos, Min(fpos + n, size))

\* ReadTo that always asks for a whole block
ReadTo_WholeBlock(bs, stop, position) == bs

\* read_to = min(self.block_size, self.stop - position)
ReadTo(bs, stop, position) == Min(bs, stop - position)

\* the loop test of RangedFileReader.__iter__
InWindow(position, stop) == position < stop

\* RangedFileReader.__iter__: one next() on the generator
LocalNext ==
    /\ variant \in {"local", "reader"}
    /\ pc \in {"ready", "streaming"}
    /\ LET first == pc = "ready"
           position == IF first THEN ranged_file.start ELSE ranged_file.position + block_size
           fpos == IF first THEN ranged_file.start ELSE ranged_file.fpos
           read_to == ReadTo(block_size, ranged_file.stop, position)
           data == FileRead(fpos, read_to)
           my_stop == position + read_to
           finished == position + block_size >= ranged_file.size
       IN  IF InWindow(position, ranged_file.stop)
           THEN /\ ranged_file' = [ranged_file EXCEPT !.position = position,
                                                      !.fpos = fpos + Len(data)]
                /\ log' = (IF ranged_file.notify
                           THEN send_signal(log, Event(position, my_stop, FALSE, finished, FALSE, <<>>))
                           ELSE log)
                          \o (IF Len(data) = 0 THEN <<>> ELSE <<Block(data)>>)
                /\ pc' = IF Len(data) = 0 THEN "done" ELSE "streaming"
           ELSE /\ ranged_file' = [ranged_file EXCEPT !.position = position, !.fpos = fpos]
                /\ log' = log
                /\ pc' = "done"
    /\ UNCHANGED <<size, error, variant, request, block_size, max_content_size, status_code,
                   headers, last_start, last_stop, download, fetches>>


\* ------------------------------------------------------------------------
\* Remote variant (google.py, google_storage_file.py)
\* ------------------------------------------------------------------------
MAX_DOWN_SIZE == 0

\* chunk_size of the probe download that only learns the size
ProbeChunkSize == 1024

\* The reader drives a google.resumable_media ChunkedDownload.  The session is
\* modelled by what the reader relies on: each consume_next_chunk asks the store
\* for bytes [start + bytes_downloaded, +chunk_size) limited by the inclusive
\* `end` and by total_bytes - 1, learns total_bytes from the first answer, and
\* sets `finished` once the answered range reaches `end` or the last byte.
\* A request the store cannot answer with 206 (first byte at or past the size,
\* or last byte before first) makes consume_next_chunk raise.

\* ChunkedDownload(media_url, chunk_size, stream, start)
NewDownload(start, chunk_size) ==
    [start |-> start, chunk_size |-> chunk_size, has_end |-> FALSE, end |-> 0,
     bytes_downloaded |-> 0, has_total |-> FALSE, total_bytes |-> 0, finished |-> FALSE]

\* first byte the next chunk asks for
CurrStart(d) == d.start + d.bytes_downloaded

\* last byte (inclusive) the next chunk asks for: limited by `end` and by the total
CurrEnd(d) ==
    LET e0 == CurrStart(d) + d.chunk_size - 1
        e1 == IF d.has_end THEN Min(e0, d.end) ELSE e0
    IN  IF d.has_total THEN Min(e1, d.total_bytes - 1) ELSE e1

\* the store answers 206 to a satisfiable 'bytes=a-b' request; anything else
\* makes consume_next_chunk raise
FetchOk(d) == CurrStart(d) < size /\ CurrEnd(d) >= CurrStart(d)

\* last byte (inclusive) the store returns
EndByte(d) == Min(CurrEnd(d), size - 1)

\* chunk.content of download.consume_next_chunk(...)
FetchData(d) == Bytes(CurrStart(d), EndByte(d) + 1)

\* the download after consume_next_chunk
FetchNext(d) ==
    [d EXCEPT !.bytes_downloaded = d.bytes_downloaded + Len(FetchData(d)),
              !.finished = IF d.has_end /\ EndByte(d) >= d.end THEN TRUE
                           ELSE IF EndByte(d) >= size - 1 THEN TRUE
                           ELSE d.finished,
              !.has_total = TRUE,
              !.total_bytes = IF d.has_total THEN d.total_bytes ELSE size]

\* RangedGoogleStorageFileReader.__init__: the exception it raises, or "" 
RemoteReaderError(start, stop, bs) ==
    LET probe == NewDownload(0, ProbeChunkSize)
        start1 == IF start < 0 THEN size + start ELSE start
    IN  IF start < 0 /\ ~FetchOk(probe) THEN "InvalidResponse"
        ELSE IF start1 < 0 THEN "ValueError"
        ELSE IF ~FetchOk(NewDownload(start1, bs)) THEN "InvalidResponse"
        ELSE ""

\* RangedGoogleStorageFileReader.__init__ when it does not raise:
\* the reader and its download session
RemoteReaderInit(start, stop, bs, notify) ==
    LET start1 == IF start < 0 THEN size + start ELSE start
        d0 == NewDownload(start1, bs)
        d1 == FetchNext(d0)
        sz == d1.total_bytes
        stop1 == IF stop = 0 THEN sz ELSE stop
        stop2 == IF MAX_DOWN_SIZE > 0 /\ sz - start1 > MAX_DOWN_SIZE
                 THEN start1 + MAX_DOWN_SIZE ELSE stop1
    IN  [reader |-> [start |-> start1, stop |-> stop2, size |-> sz, position |-> start1,
                     fpos |-> 0, notify |-> notify, iter_counter |-> 0,
                     initial_chunk |-> FetchData(d0)],
         download |-> IF stop2 > 0 THEN [d1 EXCEPT !.has_end = TRUE, !.end = stop2] ELSE d1,
         fetches |-> IF start < 0 THEN 2 ELSE 1]

\* RangedGoogleBlobResponse.add_range_headers, on a response in state r
RemoteAddRangeHeaders(start, stop, sz, r) ==
    LET r1 == [r EXCEPT !.headers.accept_ranges = TRUE]
    IN  IF start >= sz
        THEN [r1 EXCEPT !.status_code = 416]
        ELSE [r1 EXCEPT !.headers.has_content_range = TRUE,
                        !.headers.content_range = ContentRange(start, ClampStop(stop, sz), sz),
                        !.headers.has_content_length = TRUE,
                        !.headers.content_length = ClampStop(stop, sz) - start,
                        !.status_code = 206]

\* start, stop as RangedGoogleBlobResponse.__init__ gets them before the reader exists
BaseRanges(req) ==
    IF HasRange(req) THEN ParsedRemote[HeaderOf(req)]
    ELSE [tag |-> "ok", start |-> 0, stop |-> 0]

\* the exception RangedGoogleBlobResponse.__init__ raises, or ""
RemoteConstructError(req, bs) ==
    IF BaseRanges(req).tag = "BadRequest" THEN "BadRequest"
    ELSE IF BaseRanges(req).tag = "None" THEN "TypeError"
    ELSE RemoteReaderError(BaseRanges(req).start, BaseRanges(req).stop, bs)

\* network fetches made by a construction that raises
FetchesBeforeError(req) == IF BaseRanges(req).tag = "ok" THEN 1 ELSE 0

\* RangedGoogleBlobResponse.__init__, up to the event: what it builds, or the exception
RemoteResponse(req, bs) ==
    IF RemoteConstructError(req, bs) # ""
    THEN [error |-> RemoteConstructError(req, bs), status_code |-> 200, headers |-> NoHeaders,
          ranged_file |-> NoReader, download |-> NoDownload, fetches |-> FetchesBeforeError(req)]
    ELSE LET rd == RemoteReaderInit(BaseRanges(req).start, BaseRanges(req).stop, bs, TRUE)
             r0 == [error |-> "", status_code |-> 200, headers |-> NoHeaders,
                    ranged_file |-> rd.reader, download |-> rd.download, fetches |-> rd.fetches]
         IN  IF HasRange(req)
             THEN RemoteAddRangeHeaders(rd.reader.start, rd.reader.stop, rd.reader.size, r0)
             ELSE r0

\* RangedGoogleBlobResponse.__init__
RemoteConstruct ==
    /\ pc = "idle"
    /\ variant' = "remote"
    /\ \E req \in Requests, bs \in BlockSizes :
         \E r \in {RemoteResponse(req, bs)} :
           /\ request' = req
           /\ block_size' = bs
           /\ error' = r.error
           /\ status_code' = r.status_code
           /\ headers' = r.headers
           /\ ranged_file' = r.ranged_file
           /\ download' = r.download
           /\ fetches' = r.fetches
           /\ IF r.error # ""
              THEN pc' = "raised" /\ log' = log
              ELSE /\ pc' = "ready"
                   /\ log' = send_signal(log, Event(BaseRanges(req).start, BaseRanges(req).stop,
                                                    TRUE, FALSE, HasRange(req), HeaderOf(req)))
    /\ UNCHANGED <<size, max_content_size, last_start, last_stop>>

\* RangedGoogleStorageFileReader._notify_chunk
NotifyChunk(rf, d, events) ==
    LET read_to == ReadTo(block_size, rf.stop, rf.position)
        my_stop == rf.position + read_to
    IN  IF rf.notify
        THEN send_signal(events, Event(rf.position, my_stop, FALSE, d.finished, FALSE, <<>>))
        ELSE events

\* __next__ discards the initial chunk and fetches on every call
IsFirstCall_Never(counter) == FALSE

\* __next__: `if self.iter_counter == 1`, the call that returns the initial chunk
IsFirstCall(counter) == counter = 1

\* RangedGoogleStorageFileReader.__next__
RemoteNext ==
    /\ variant = "remote"
    /\ pc \in {"ready", "streaming"}
    /\ LET counter == ranged_file.iter_counter + 1
           notified == NotifyChunk(ranged_file, download, log)
           rf == [ranged_file EXCEPT !.iter_counter = counter,
                                     !.position = ranged_file.position + block_size]
       IN  /\ ranged_file' = rf
           /\ IF IsFirstCall(counter)
              THEN /\ log' = Append(notified, Block(ranged_file.initial_chunk))
                   /\ pc' = "streaming"
                   /\ UNCHANGED <<download, fetches, error>>
              ELSE IF download.finished
              THEN /\ log' = notified
                   /\ pc' = "done"
                   /\ UNCHANGED <<download, fetches, error>>
              ELSE IF ~FetchOk(download)
              THEN /\ log' = notified
                   /\ pc' = "failed"
                   /\ error' = "InvalidResponse"
                   /\ fetches' = fetches + 1
                   /\ UNCHANGED download
              ELSE /\ download' = FetchNext(download)
                   /\ fetches' = fetches + 1
                   /\ IF Len(FetchData(download)) = 0
                      THEN log' = notified /\ pc' = "done"
                      ELSE log' = Append(notified, Block(FetchData(download))) /\ pc' = "streaming"
                   /\ UNCHANGED error
    /\ UNCHANGED <<size, variant, request, block_size, max_content_size, status_code,
                   headers, last_start, last_stop>>

\* ------------------------------------------------------------------------
\* Specification
\* ------------------------------------------------------------------------
Next ==
    \/ LocalConstruct
    \/ RemoteConstruct
    \/ OpenReader
    \/ LocalNext
    \/ RemoteNext

Spec == Init /\ [][Next]_vars


FairSpec == Spec /\ WF_vars(LocalNext) /\ WF_vars(RemoteNext)

\* ------------------------------------------------------------------------
\* What a request asks for, read off the request itself
\* ------------------------------------------------------------------------
\* the header carries exactly one byte-range-spec
IsSingle(req) == req.kind \in {"range", "open", "suffix"} /\ ~req.multi

\* the header carries several comma-separated specs
IsMulti(req) == req.kind \in {"range", "open", "suffix"} /\ req.multi

\* first byte asked for by the (first) spec, against a resource of sz bytes
ReqStart(req, sz) ==
    IF req.kind = "suffix" THEN (IF sz - req.n < 0 THEN 0 ELSE sz - req.n) ELSE req.n

\* exclusive end asked for by the (first) spec
ReqStop(req, sz) == IF req.kind = "range" THEN req.m + 1 ELSE sz

\* the (first) spec is a valid one: it names at least one byte position
ValidSpec(req, sz) == ReqStart(req, sz) < ReqStop(req, sz)

Built == pc \in {"ready", "streaming", "done", "failed"}

RECURSIVE ConcatBlocks(_)
\* the body streamed so far: the blocks of the log, joined in order
ConcatBlocks(l) ==
    IF Len(l) = 0 THEN <<>>
    ELSE (IF Head(l).kind = "block" THEN Head(l).data ELSE <<>>) \o ConcatBlocks(Tail(l))

BlockIdx == {i \in 1..Len(log) : log[i].kind = "block"}

\* the header is not a byte-range-set: bad unit, bad syntax, non-numeric field,
\* empty, or a single inverted range
Malformed(req) ==
    \/ req.kind \in MalformedKinds
    \/ req.kind = "range" /\ ~req.multi /\ req.n > req.m

\* the request with only the first spec of its header
Single(req) == [req EXCEPT !.multi = FALSE, !.rest = <<>>]

EventIdx == {i \in 1..Len(log) : log[i].kind = "event" /\ ~log[i].reloaded}

ReloadedIdx == {i \in 1..Len(log) : log[i].kind = "event" /\ log[i].reloaded}

\* ------------------------------------------------------------------------
\* Claims
\* ------------------------------------------------------------------------

\* C1: local variant, Range header with one valid spec whose start is below the
\* size: status 206, stop = min(parsedStop, size), Content-Range is
\* 'bytes {start}-{stop-1}/{size}', Content-Length is stop-start, and the reader's
\* window is exactly [start, stop) with 0 <= start < stop <= size.
C1_LocalPartial ==
    (variant = "local" /\ Built /\ IsSingle(request) /\ ValidSpec(request, size)
        /\ ReqStart(request, size) < size)
    => LET start == ReqStart(request, size)
           stop == Min(ReqStop(request, size), size)
       IN  /\ status_code = 206
           /\ headers.has_content_range
           /\ headers.content_range = ContentRange(start, stop, size)
           /\ headers.has_content_length
           /\ headers.content_length = stop - start
           /\ ranged_file.start = start
           /\ ranged_file.stop = stop
           /\ 0 <= start /\ start < stop /\ stop <= size

\* C1 witness: 'bytes=-1' on 4 bytes is answered 206 with 'bytes 3-3/4',
\* and 'bytes=1-12' would be clamped the same way
C1_Witness ==
    /\ variant = "local" /\ pc = "ready" /\ size = 4
    /\ request.kind = "suffix" /\ request.n = 1 /\ ~request.multi
    /\ status_code = 206
    /\ headers.content_range = <<"b", "y", "t", "e", "s", " ", "3", "-", "3", "/", "4">>
    /\ headers.content_length = 1
    /\ ranged_file.start = 3 /\ ranged_file.stop = 4

\* C2: local variant, requested start >= size ('bytes=N-M' and 'bytes=N-' alike):
\* the status is 416 and iterating the response produces no blocks.
C2_Unsatisfiable ==
    (variant = "local" /\ Built /\ IsSingle(request) /\ request.kind \in {"range", "open"}
        /\ (request.kind = "range" => request.n <= request.m)
        /\ request.n >= size)
    => status_code = 416 /\ BlockIdx = {}

\* the window of a local reader lies inside the resource
C3_Window ==
    /\ variant \in {"local", "reader"} /\ Built
    /\ 0 <= ranged_file.start
    /\ ranged_file.start < ranged_file.stop
    /\ ranged_file.stop <= ranged_file.size

C3_Exact ==
    C3_Window =>
        /\ \A i \in BlockIdx : Len(log[i].data) >= 1 /\ Len(log[i].data) <= block_size
        /\ pc = "ready" => BlockIdx = {}
        /\ pc = "streaming" =>
               ConcatBlocks(log) = Bytes(ranged_file.start,
                                         Min(ranged_file.position + block_size, ranged_file.stop))
        /\ pc = "done" => ConcatBlocks(log) = Bytes(ranged_file.start, ranged_file.stop)
        /\ pc # "failed"

\* C3: local source, window 0 <= start < stop <= size, blockSize >= 1: iteration
\* terminates, and the produced blocks, each of 1..blockSize bytes, joined in
\* order are exactly the bytes [start, stop) of the resource.
C3_LocalReaderExact == [](C3_Exact) /\ (C3_Window ~> (pc = "done"))

\* C3 witness: [0, 3) of 4 bytes read in blocks of 2: a full block, then a short one
C3_Witness ==
    /\ variant = "reader" /\ pc = "done" /\ size = 4 /\ block_size = 2
    /\ ranged_file.start = 0 /\ ranged_file.stop = 3
    /\ Cardinality(BlockIdx) = 2
    /\ ConcatBlocks(log) = <<0, 1, 2>>

\* C4: local variant with maxContentSize = c > 0: the window streamed satisfies
\* stop <= start + c, with or without a Range header, and no more than c bytes
\* are streamed.
C4_CapBound ==
    (variant = "local" /\ Built /\ max_content_size > 0)
    => /\ ranged_file.stop <= ranged_file.start + max_content_size
       /\ Len(ConcatBlocks(log)) <= max_content_size

\* C5: both variants answer a malformed Range header as a full-resource response:
\* no exception, status 200, no Content-Range, range [0, size).
C5_MalformedFull ==
    (variant \in {"local", "remote"} /\ pc # "idle" /\ Malformed(request))
    => /\ pc # "raised" /\ error = ""
       /\ status_code = 200
       /\ ~headers.has_content_range
       /\ ranged_file.start = 0
       /\ max_content_size = 0 => Min(ranged_file.stop, size) = size

\* C6: local parser with the size known: 'bytes=N-M' with N < M <= size parses to
\* (N, M+1); 'bytes=-K' parses to (max(0, size-K), size); the response records
\* the parsed start as last_start.
C6_LocalParse ==
    (variant = "local" /\ Built /\ IsSingle(request))
    => /\ (request.kind = "range" /\ request.n < request.m /\ request.m <= size)
              => /\ ParsedLocal[HeaderOf(request)][size]
                        = [tag |-> "ranges", ranges |-> <<<<request.n, request.m + 1>>>>]
                 /\ last_start = request.n
       /\ request.kind = "suffix"
              => /\ ParsedLocal[HeaderOf(request)][size]
                        = [tag |-> "ranges",
                           ranges |-> <<<<IF size - request.n < 0 THEN 0 ELSE size - request.n, size>>>>]
                 /\ last_start = (IF size - request.n < 0 THEN 0 ELSE size - request.n)

\* C6 witness: 'bytes=1-3' on 3 bytes, where M = size and the parsed stop is 4
C6_Witness ==
    /\ variant = "local" /\ pc = "ready" /\ size = 3
    /\ request.kind = "range" /\ request.n = 1 /\ request.m = 3 /\ ~request.multi
    /\ ParsedLocal[HeaderOf(request)][size].ranges = <<<<1, 4>>>>
    /\ last_start = 1 /\ last_stop = 3

\* the response equals the one built for the header cut down to its first spec
SameAsSingle ==
    IF variant = "local"
    THEN LET r == LocalResponse(Single(request), block_size, max_content_size)
         IN  /\ status_code = r.status_code
             /\ headers = r.headers
             /\ ranged_file.start = r.ranged_file.start
             /\ ranged_file.stop = r.ranged_file.stop
    ELSE LET r == RemoteResponse(Single(request), block_size)
         IN  /\ (pc = "raised") = (r.error # "")
             /\ pc = "raised" => error = r.error
             /\ status_code = r.status_code
             /\ headers = r.headers
             /\ ranged_file.start = r.ranged_file.start
             /\ ranged_file.stop = r.ranged_file.stop

\* a header of several specs whose first spec is valid and satisfiable
C7_Case ==
    /\ variant \in {"local", "remote"} /\ pc # "idle"
    /\ IsMulti(request) /\ ValidSpec(request, size) /\ ReqStart(request, size) < size

C8_VariantsAgree ==
    (variant = "local" /\ Built /\ HasRange(request))
    => LET r == RemoteResponse(request, block_size)
       IN  /\ r.error = ""
           /\ r.status_code = status_code
           /\ r.headers.has_content_range = headers.has_content_range
           /\ r.headers.content_range = headers.content_range
           /\ r.headers.has_content_length = headers.has_content_length
           /\ r.headers.content_length = headers.content_length

\* C9: every response emits exactly one reloaded=true event, first in the log,
\* carrying the window actually served and the raw Range header (or none).
C9_OpenEvent ==
    (variant \in {"local", "remote"} /\ Built)
    => /\ Cardinality(ReloadedIdx) = 1
       /\ ReloadedIdx = {1}
       /\ log[1].has_range = HasRange(request)
       /\ log[1].http_range = HeaderOf(request)
       /\ log[1].start = ranged_file.start
       /\ log[1].stop = Min(ranged_file.stop, size)

\* C10: while a response streams, per-block events and blocks correspond one to
\* one: every block comes right after one event, every event is followed by its
\* block, and the event offsets strictly increase.
C10_EventPerBlock ==
    (variant \in {"local", "remote"} /\ Built)
    => /\ \A i \in BlockIdx : (i - 1) \in EventIdx
       /\ \A i \in EventIdx : (i + 1) \in BlockIdx
       /\ \A i, j \in EventIdx : i < j => log[i].start < log[j].start

\* the bytes streamed so far all lie below the exclusive end `stop`
BelowStop(stop) ==
    \A i \in BlockIdx : \A k \in 1..Len(log[i].data) : log[i].data[k] < stop

\* C11: remote source, window 0 <= start < stop <= size, any block size: no byte
\* at or past stop is ever produced, the iteration does not raise, and when it
\* ends the blocks joined in order are exactly the bytes [start, stop).
C11_RemoteExact ==
    (/\ variant = "remote"
     /\ Built
     /\ 0 <= ranged_file.start
     /\ ranged_file.start < ranged_file.stop
     /\ ranged_file.stop <= ranged_file.size)
    => /\ BelowStop(ranged_file.stop)
       /\ pc # "failed"
       /\ (pc = "done" => ConcatBlocks(log) = Bytes(ranged_file.start, ranged_file.stop))

\* a step that is one call of the remote reader's next()
RemoteCall ==
    /\ variant = "remote"
    /\ pc \in {"ready", "streaming"}
    /\ ranged_file'.iter_counter = ranged_file.iter_counter + 1

\* the step returns a block: the log grows by a block at its end
ReturnsBlock == Len(log') > Len(log) /\ log'[Len(log')].kind = "block"

\* what one call of next() does, by its number and the state of the session
C12_Call ==
    RemoteCall
    => /\ ranged_file'.position = ranged_file.position + block_size
       /\ ranged_file.iter_counter = 0
          => /\ ReturnsBlock
             /\ log'[Len(log')].data = ranged_file.initial_chunk
             /\ fetches' = fetches
             /\ download' = download
       /\ (ranged_file.iter_counter > 0 /\ ReturnsBlock)
          => /\ fetches' = fetches + 1
             /\ log'[Len(log')].data = FetchData(download)
       /\ (ranged_file.iter_counter > 0 /\ download.finished)
          => /\ pc' = "done"
             /\ ~ReturnsBlock
             /\ fetches' = fetches
       /\ (ranged_file.iter_counter > 0 /\ ~download.finished)
          => /\ fetches' = fetches + 1
             /\ pc' = "done" <=> (FetchOk(download) /\ Len(FetchData(download)) = 0)

\* a fetch happens only inside a constructor or a call of next(), and an ended
\* iteration takes no further step
C12_OnDemand ==
    /\ fetches' # fetches => (pc = "idle" \/ RemoteCall)
    /\ download.finished => fetches' = fetches
    /\ pc # "done"

\* C12: remote iteration protocol: the first next() returns the initial chunk of
\* the constructor without a fetch; every later next() that returns a block makes
\* exactly one fetch, and no fetch happens outside a call; the cursor advances by
\* block_size on every call; a later call that finds the session finished (or
\* fetches an empty chunk) ends the iteration, after which nothing is fetched.
C12_RemoteProtocol == [][C12_Call /\ C12_OnDemand]_vars

\* an iteration of at least three calls has ended: the constructor's fetch, one
\* fetch per call between the first and the last, a block for every call but the last
C12_Witness ==
    /\ variant = "remote"
    /\ pc = "done"
    /\ request.kind # "suffix"
    /\ ranged_file.iter_counter >= 3
    /\ fetches = ranged_file.iter_counter - 1
    /\ Cardinality(BlockIdx) = ranged_file.iter_counter - 1
    /\ ranged_file.position = ranged_file.start + ranged_file.iter_counter * block_size

\* the last entry of the log is a per-block event with finished = true
EndsFinished ==
    /\ Len(log) \in EventIdx
    /\ log[Len(log)].finished

\* the event sent for the last block produced has finished = true
FinalBlockFinished ==
    \A i \in BlockIdx :
        (\A j \in BlockIdx : j <= i) => ((i - 1) \in EventIdx /\ log[i - 1].finished)

\* C13: local source: a per-block event has finished = true exactly when its
\* position + block_size has reached the size of the resource, whatever stop is;
\* when the whole resource has been streamed, the event of the final block has
\* finished = true; and an iteration ended by an empty read before stop ends
\* without error right after an event with finished = true.
C13_LocalFinished ==
    (variant \in {"local", "reader"} /\ Built)
    => /\ \A i \in EventIdx : log[i].finished <=> (log[i].start + block_size >= size)
       /\ (/\ pc = "done"
           /\ size > 0
           /\ ranged_file.start = 0
           /\ ranged_file.stop >= size
           /\ variant = "local" => ~HasRange(request))
          => (BlockIdx # {} /\ FinalBlockFinished)
       /\ (pc = "done" /\ ranged_file.position < ranged_file.stop)
          => (EndsFinished /\ error = "")

\* C14: remote variant, Range header with one syntactically valid spec whose
\* outcome is not 416: the reader's window satisfies 0 <= start < stop <= size;
\* for a suffix 'bytes=-N' the constructor makes exactly one fetch more (the
\* probe), the window is [size - N, size) and the download is opened at size - N.
C14_RemoteWindow ==
    (/\ variant = "remote"
     /\ Built
     /\ IsSingle(request)
     /\ ~Malformed(request)
     /\ status_code # 416)
    => /\ 0 <= ranged_file.start
       /\ ranged_file.start < ranged_file.stop
       /\ ranged_file.stop <= ranged_file.size
       /\ ranged_file.size = size
       /\ request.kind = "suffix"
          => /\ ranged_file.start = size - request.n
             /\ ranged_file.stop = size
             /\ download.start = ranged_file.start
             /\ pc = "ready" => fetches = 2

====
